---- MODULE Spec2Model ----
(***************************************************************************)
(* Policy evaluation, policy improvement, policy iteration and value       *)
(* iteration of Solving_MDPs_with_PI_and_VI.ipynb, as a state machine.     *)
(*                                                                         *)
(* Numbers.  The notebook computes in float64.  Here a number is a decimal *)
(* fixed-point value with 12 fractional digits, kept as a pair <<hi, lo>>  *)
(* that stands for (hi * Base + lo) * 10^-12 with 0 <= lo < Base, so that  *)
(* theta = 1e-10 is representable and every intermediate fits TLC's        *)
(* integers.  Probabilities and gamma are tenths (8 is 0.8, 10 is 1.0);    *)
(* a product by a tenth is rounded to the nearest unit, as each float      *)
(* product is rounded.  Rewards are integers.                              *)
(***************************************************************************)
EXTENDS Integers, Sequences, FiniteSets

VARIABLES
    mdp,                \* the MDP passed to both algorithms
    gamma,              \* discount factor, in tenths
    theta,              \* convergence threshold, a fixed-point number
    pi_pc,              \* policy_iteration: "idle", "loop", "pe", "improve", "returned"
    current_policy,     \* policy_iteration: current_policy
    policy_to_improve,  \* policy_iteration: policy_to_improve (pi of policy_evaluation)
    state_values,       \* policy_evaluation: state_values
    pi_value_function,  \* policy_iteration: value_function
    improved_policy,    \* policy_iteration: improved_policy
    vi_pc,              \* value_iteration: "idle", "loop", "returned"
    vi_value_function,  \* value_iteration: value_function
    Q_vals,             \* value_iteration: Q_vals of the last sweep
    vi_policy,          \* value_iteration: policy
    visited,            \* history: the policies policy_iteration has evaluated
    sweeps              \* history: sweeps done by the running policy_evaluation

vars == <<mdp, gamma, theta, pi_pc, current_policy, policy_to_improve,
          state_values, pi_value_function, improved_policy,
          vi_pc, vi_value_function, Q_vals, vi_policy, visited, sweeps>>

pi_vars == <<pi_pc, current_policy, policy_to_improve, state_values,
             pi_value_function, improved_policy, visited, sweeps>>

vi_vars == <<vi_pc, vi_value_function, Q_vals, vi_policy>>

-----------------------------------------------------------------------------
(* Fixed-point arithmetic *)

Base == 10^6

FxZero == <<0, 0>>

FxNorm(h, l) == <<h + (l \div Base), l % Base>>

FxFromInt(n) == <<n * Base, 0>>

FxAdd(a, b) == FxNorm(a[1] + b[1], a[2] + b[2])

FxSub(a, b) == FxNorm(a[1] - b[1], a[2] - b[2])

FxLess(a, b) == a[1] < b[1] \/ (a[1] = b[1] /\ a[2] < b[2])

FxAbs(a) == IF a[1] < 0 THEN FxSub(FxZero, a) ELSE a

FxMax(a, b) == IF FxLess(a, b) THEN b ELSE a

\* k tenths of a, rounded to the nearest unit (half up)
FxTenths(k, a) ==
    LET m == FxNorm(k * a[1], k * a[2] + 5)
    IN  <<m[1] \div 10, ((m[1] % 10) * Base + m[2]) \div 10>>

-----------------------------------------------------------------------------
(* The MDP: state -> action -> sequence of                                 *)
(* <<transition_probability, state_prime, reward, done>>                   *)

state_space(m) == Cardinality(DOMAIN m)

action_space(m) == Cardinality(DOMAIN m[0])

States(m) == 0 .. state_space(m) - 1

Actions(m) == 0 .. action_space(m) - 1

None == <<>>

zeros(m) == [s \in States(m) |-> FxZero]

slippery_bandit_walk ==
    LET T(p, sp, r, d) == <<p, sp, r, d>>
    IN  [s \in 0..4 |-> [a \in 0..1 |->
          CASE s = 0 -> << T(10, 0, 0, TRUE) >>
            [] s = 4 -> << T(10, 4, 0, TRUE) >>
            [] s = 1 /\ a = 0 -> << T(8, 0, 0, TRUE), T(2, 2, 0, FALSE) >>
            [] s = 1 /\ a = 1 -> << T(8, 2, 0, FALSE), T(2, 0, 0, TRUE) >>
            [] s = 2 /\ a = 0 -> << T(8, 1, 0, FALSE), T(2, 3, 0, FALSE) >>
            [] s = 2 /\ a = 1 -> << T(8, 3, 0, FALSE), T(2, 1, 0, FALSE) >>
            [] s = 3 /\ a = 0 -> << T(8, 2, 0, FALSE), T(2, 4, 1, TRUE) >>
            [] s = 3 /\ a = 1 -> << T(8, 4, 1, TRUE), T(2, 2, 0, FALSE) >> ]]

-----------------------------------------------------------------------------
(* The Bellman backup shared by the three algorithms *)

\* Term with the done flag inverted: (done) in place of (not done)
Term_InvertedDone(o, values, g) ==
    FxTenths(o[1], FxAdd(FxFromInt(o[3]),
                         IF o[4] THEN FxTenths(g, values[o[2]]) ELSE FxZero))

\* transition_probability * (reward + gamma * values[state_prime] * (not done))
Term(o, values, g) ==
    FxTenths(o[1], FxAdd(FxFromInt(o[3]),
                         IF o[4] THEN FxZero ELSE FxTenths(g, values[o[2]])))

RECURSIVE Accumulate(_, _, _, _)
\* the += loop over the first n outcomes, starting from 0.0
Accumulate(outcomes, n, values, g) ==
    IF n = 0 THEN FxZero
    ELSE FxAdd(Accumulate(outcomes, n - 1, values, g), Term(outcomes[n], values, g))

\* Backup that leaves the loop one outcome early
Backup_DropsLast(outcomes, values, g) ==
    Accumulate(outcomes, IF Len(outcomes) > 1 THEN Len(outcomes) - 1 ELSE 1, values, g)

Backup(outcomes, values, g) == Accumulate(outcomes, Len(outcomes), values, g)

\* one sweep of policy_evaluation: current_values from state_values
EvaluationSweep(pi, m, g, values) ==
    [s \in States(m) |-> Backup(m[s][pi[s]], values, g)]

\* the Q_vals loops of policy_improvement and value_iteration
ActionValues(values, m, g) ==
    [s \in States(m) |-> [a \in Actions(m) |-> Backup(m[s][a], values, g)]]

RECURSIVE MaxAbsDiffUpTo(_, _, _)
MaxAbsDiffUpTo(x, y, n) ==
    IF n = 0 THEN FxAbs(FxSub(x[0], y[0]))
    ELSE FxMax(MaxAbsDiffUpTo(x, y, n - 1), FxAbs(FxSub(x[n], y[n])))

\* np.max(np.absolute(x - y))
MaxAbsDiff(x, y) == MaxAbsDiffUpTo(x, y, Cardinality(DOMAIN x) - 1)

\* the stopping test with <= in place of <
Converged_Inclusive(old, new, th) == ~FxLess(th, MaxAbsDiff(old, new))

\* the stopping test looking at state 0 only
Converged_FirstState(old, new, th) == FxLess(FxAbs(FxSub(old[0], new[0])), th)

\* the stopping test of both loops
Converged(old, new, th) == FxLess(MaxAbsDiff(old, new), th)

RECURSIVE ArgMaxUpTo(_, _)
\* np.argmax of a row: the first index holding the maximum
ArgMaxUpTo(row, n) ==
    IF n = 0 THEN 0
    ELSE LET b == ArgMaxUpTo(row, n - 1)
         IN  IF FxLess(row[b], row[n]) THEN n ELSE b

RECURSIVE ArgMaxLastUpTo(_, _)
\* an argmax that keeps the last index holding the maximum
ArgMaxLastUpTo(row, n) ==
    IF n = 0 THEN 0
    ELSE LET b == ArgMaxLastUpTo(row, n - 1)
         IN  IF FxLess(row[n], row[b]) THEN b ELSE n

ArgMax_Last(row) == ArgMaxLastUpTo(row, Cardinality(DOMAIN row) - 1)

ArgMax(row) == ArgMaxUpTo(row, Cardinality(DOMAIN row) - 1)

\* the first column in place of the row maximum
RowMax_FirstColumn(Q) == [s \in DOMAIN Q |-> Q[s][0]]

\* np.max(Q, axis=1)
RowMax(Q) == [s \in DOMAIN Q |-> Q[s][ArgMax(Q[s])]]

policy_constructor(Q) == [s \in DOMAIN Q |-> ArgMax(Q[s])]

policy_improvement(value_function, m, g) ==
    policy_constructor(ActionValues(value_function, m, g))

\* a comparison of the two policies in state 0 only
SamePolicy_FirstState(p, q, m) == p[0] = q[0]

\* policy_to_improve == {state: improved_policy[state] for state in range(state_space)}
SamePolicy(p, q, m) == p = [s \in States(m) |-> q[s]]

-----------------------------------------------------------------------------
(* Inputs *)

MaxValue == 6

Rewards == {0, 1}

Gammas == {10, 5}

\* 0.25
Thetas == {<<250000, 0>>}

\* 1e-10, the notebook's default
DefaultTheta == <<0, 100>>

SplitProbabilities == {5, 8}

StateCounts == {1, 2}

ActionCounts == {1, 2}

DetRows(ns) ==
    { << <<10, sp, r, d>> >> : sp \in 0 .. ns - 1, r \in Rewards, d \in BOOLEAN }

SplitRows(ns) ==
    { << <<p, sp1, r1, d1>>, <<10 - p, sp2, r2, d2>> >> :
        p \in SplitProbabilities,
        sp1 \in 0 .. ns - 1, r1 \in Rewards, d1 \in BOOLEAN,
        sp2 \in 0 .. ns - 1, r2 \in Rewards, d2 \in BOOLEAN }

\* one-state MDPs have deterministic and two-outcome rows, larger ones
\* deterministic rows
Rows(ns) == IF ns = 1 THEN DetRows(ns) \cup SplitRows(ns) ELSE DetRows(ns)

MDPs ==
    UNION { [0 .. ns - 1 -> [0 .. na - 1 -> Rows(ns)]] :
              ns \in StateCounts, na \in ActionCounts }

Policies(m) == [States(m) -> Actions(m)]

\* the loops go on only while every value is below MaxValue
Bounded(values) == \A s \in DOMAIN values : values[s][1] < MaxValue * Base

-----------------------------------------------------------------------------
(* The state machine *)

InitCalls ==
    /\ pi_pc = "idle"
    /\ current_policy = None
    /\ policy_to_improve = None
    /\ state_values = None
    /\ pi_value_function = None
    /\ improved_policy = None
    /\ vi_pc = "idle"
    /\ vi_value_function = None
    /\ Q_vals = None
    /\ vi_policy = None
    /\ visited = {}
    /\ sweeps = 0

Init ==
    /\ mdp \in MDPs
    /\ gamma \in Gammas
    /\ theta \in Thetas
    /\ InitCalls

InitSBW ==
    /\ mdp = slippery_bandit_walk
    /\ gamma = 10
    /\ theta = DefaultTheta
    /\ InitCalls

\* policy_iteration is called, before value_iteration as in the notebook:
\* value_function = None, a random current_policy
PI_Call ==
    /\ pi_pc = "idle"
    /\ vi_pc = "idle"
    /\ \E pi0 \in Policies(mdp) : current_policy' = pi0
    /\ pi_value_function' = None
    /\ pi_pc' = "loop"
    /\ UNCHANGED <<mdp, gamma, theta, policy_to_improve, state_values,
                   improved_policy, visited, sweeps>>
    /\ UNCHANGED vi_vars

\* top of the while loop: policy_to_improve = current_policy, and
\* policy_evaluation starts from state_values = zeros
PI_Evaluate ==
    /\ pi_pc = "loop"
    /\ policy_to_improve' = current_policy
    /\ state_values' = zeros(mdp)
    /\ visited' = visited \cup {current_policy}
    /\ sweeps' = 0
    /\ pi_pc' = "pe"
    /\ UNCHANGED <<mdp, gamma, theta, current_policy, pi_value_function,
                   improved_policy>>
    /\ UNCHANGED vi_vars

\* a sweep of policy_evaluation that fails the stopping test
PE_Continue ==
    /\ pi_pc = "pe"
    /\ Bounded(state_values)
    /\ LET current_values == EvaluationSweep(policy_to_improve, mdp, gamma, state_values)
       IN  /\ ~Converged(state_values, current_values, theta)
           /\ state_values' = current_values
    /\ sweeps' = sweeps + 1
    /\ UNCHANGED <<mdp, gamma, theta, pi_pc, current_policy, policy_to_improve,
                   pi_value_function, improved_policy, visited>>
    /\ UNCHANGED vi_vars

\* a sweep of policy_evaluation that passes it: break, return current_values
PE_Return ==
    /\ pi_pc = "pe"
    /\ LET current_values == EvaluationSweep(policy_to_improve, mdp, gamma, state_values)
       IN  /\ Converged(state_values, current_values, theta)
           /\ pi_value_function' = current_values
    /\ sweeps' = sweeps + 1
    /\ pi_pc' = "improve"
    /\ UNCHANGED <<mdp, gamma, theta, current_policy, policy_to_improve,
                   state_values, improved_policy, visited>>
    /\ UNCHANGED vi_vars

\* policy_improvement, then the comparison that ends or repeats the loop
PI_Improve ==
    /\ pi_pc = "improve"
    /\ improved_policy' = policy_improvement(pi_value_function, mdp, gamma)
    /\ IF SamePolicy(policy_to_improve, improved_policy', mdp)
       THEN /\ pi_pc' = "returned"
            /\ UNCHANGED current_policy
       ELSE /\ pi_pc' = "loop"
            /\ current_policy' = improved_policy'
    /\ UNCHANGED <<mdp, gamma, theta, policy_to_improve, state_values,
                   pi_value_function, visited, sweeps>>
    /\ UNCHANGED vi_vars

\* value_iteration is called, on its own or once policy_iteration has
\* returned: value_function = zeros
VI_Call ==
    /\ vi_pc = "idle"
    /\ pi_pc \in {"idle", "returned"}
    /\ vi_value_function' = zeros(mdp)
    /\ vi_pc' = "loop"
    /\ UNCHANGED <<Q_vals, vi_policy>>
    /\ UNCHANGED <<mdp, gamma, theta>>
    /\ UNCHANGED pi_vars

\* a sweep of value_iteration that fails the stopping test
VI_Continue ==
    /\ vi_pc = "loop"
    /\ Bounded(vi_value_function)
    /\ LET Q == ActionValues(vi_value_function, mdp, gamma)
       IN  /\ ~Converged(vi_value_function, RowMax(Q), theta)
           /\ Q_vals' = Q
           /\ vi_value_function' = RowMax(Q)
    /\ UNCHANGED <<vi_pc, vi_policy>>
    /\ UNCHANGED <<mdp, gamma, theta>>
    /\ UNCHANGED pi_vars

\* a sweep of value_iteration that passes it: break, build the policy, return
VI_Return ==
    /\ vi_pc = "loop"
    /\ LET Q == ActionValues(vi_value_function, mdp, gamma)
       IN  /\ Converged(vi_value_function, RowMax(Q), theta)
           /\ Q_vals' = Q
           /\ vi_policy' = policy_constructor(Q)
    /\ vi_pc' = "returned"
    /\ UNCHANGED vi_value_function
    /\ UNCHANGED <<mdp, gamma, theta>>
    /\ UNCHANGED pi_vars

Next ==
    \/ PI_Call
    \/ PI_Evaluate
    \/ PE_Continue
    \/ PE_Return
    \/ PI_Improve
    \/ VI_Call
    \/ VI_Continue
    \/ VI_Return

Spec == Init /\ [][Next]_vars

SpecSBW == InitSBW /\ [][Next]_vars

-----------------------------------------------------------------------------
(* Vocabulary of the properties *)

OutcomesOf(m, s, a) == { m[s][a][i] : i \in 1 .. Len(m[s][a]) }

FxLeq(a, b) == ~FxLess(b, a)

\* v is the largest entry of row
IsMaxOf(v, row) ==
    /\ \E a \in DOMAIN row : row[a] = v
    /\ \A a \in DOMAIN row : FxLeq(row[a], v)

\* a is the lowest index among those holding the largest entry of row
IsFirstMax(a, row) ==
    /\ a \in DOMAIN row
    /\ \A b \in DOMAIN row : FxLeq(row[b], row[a])
    /\ \A b \in DOMAIN row : b < a => FxLess(row[b], row[a])

\* the states from which pi reaches a done outcome within n steps with
\* positive probability
RECURSIVE EndingStates(_, _, _)
EndingStates(m, pi, n) ==
    IF n = 0 THEN {}
    ELSE LET G == EndingStates(m, pi, n - 1)
         IN  { s \in States(m) :
                 \E o \in OutcomesOf(m, s, pi[s]) : o[1] > 0 /\ (o[4] \/ o[2] \in G) }

\* under pi every state reaches a done outcome with probability 1
Proper(m, pi) == EndingStates(m, pi, state_space(m)) = States(m)

\* a terminating MDP: every policy is proper
Terminating(m) == \A pi \in Policies(m) : Proper(m, pi)

\* pi never reaches a done outcome, from any state
NeverTerminal(m, pi) ==
    \A s \in States(m) : \A o \in OutcomesOf(m, s, pi[s]) : o[1] > 0 => ~o[4]

PI_Returned == pi_pc = "returned"

VI_Returned == vi_pc = "returned"

-----------------------------------------------------------------------------
(* C1: when value_iteration returns, the value function it returns is the  *)
(* row maximum of the last Q table, state by state, and the returned       *)
(* policy is the argmax of that same Q table.                              *)
C1_ReturnsFinalSweep ==
    VI_Returned =>
        \A s \in States(mdp) :
            /\ IsMaxOf(vi_value_function[s], Q_vals[s])
            /\ IsFirstMax(vi_policy[s], Q_vals[s])

-----------------------------------------------------------------------------
(* C5: on a terminating MDP the value function policy_evaluation returns   *)
(* in a round of policy_iteration is, in every state, not lower than the   *)
(* previous round's by theta or more.                                      *)
C5_MonotonicImprovement ==
    [][(pi_pc = "pe" /\ pi_pc' = "improve" /\ pi_value_function # None
            /\ Terminating(mdp))
        => \A s \in States(mdp) :
              FxLess(pi_value_function[s], FxAdd(pi_value_function'[s], theta))]_vars

-----------------------------------------------------------------------------
(* C6: on a terminating MDP the policy that policy_iteration is about to   *)
(* evaluate is never one it has evaluated before.                          *)
C6_NeverRevisits ==
    (pi_pc = "loop" /\ Terminating(mdp)) => current_policy \notin visited

-----------------------------------------------------------------------------
(* C2: the step that follows policy_improvement returns exactly when the   *)
(* improved policy picks, in every state, the action of the policy just    *)
(* evaluated; it then returns that policy with the value function of this  *)
(* round's policy_evaluation, which is the evaluation of the returned      *)
(* policy; otherwise the improved policy becomes the current policy and    *)
(* the loop repeats.                                                       *)
C2_StopsAtFirstStablePolicy ==
    /\ [][pi_pc = "improve" =>
            LET same == \A s \in States(mdp) :
                            improved_policy'[s] = policy_to_improve[s]
            IN  /\ pi_pc' = "returned" <=> same
                /\ pi_value_function' = pi_value_function
                /\ ~same => pi_pc' = "loop" /\ current_policy' = improved_policy']_vars
    /\ [](PI_Returned =>
            /\ DOMAIN improved_policy = States(mdp)
            /\ \A s \in States(mdp) : improved_policy[s] = policy_to_improve[s]
            /\ \A s \in States(mdp) :
                  pi_value_function[s] =
                      Backup(mdp[s][improved_policy[s]], state_values, gamma)
            /\ \A s \in States(mdp) :
                  FxLess(FxAbs(FxSub(state_values[s], pi_value_function[s])), theta))

C2_Witness == PI_Returned /\ Cardinality(visited) >= 2

-----------------------------------------------------------------------------
(* C3: once policy_evaluation has returned V for a policy, one more sweep  *)
(* of the same update applied to V changes every state's value by less     *)
(* than theta.                                                             *)
C3_EvaluationFixedPoint ==
    pi_pc \in {"improve", "returned"} =>
        LET V == pi_value_function
            W == EvaluationSweep(policy_to_improve, mdp, gamma, V)
        IN  \A s \in States(mdp) : FxLess(FxAbs(FxSub(W[s], V[s])), theta)

C3_Witness ==
    /\ pi_pc = "improve"
    /\ sweeps >= 3
    /\ state_values # pi_value_function
    /\ EvaluationSweep(policy_to_improve, mdp, gamma, pi_value_function)
           # pi_value_function

-----------------------------------------------------------------------------
\* the action value of the claim: prob * (reward + gamma * value[next] *
\* (0 if terminal else 1)), summed over the outcomes
ClaimedTerm(o, values, g) ==
    LET future == FxTenths(g, values[o[2]])
        kept   == IF o[4] THEN FxZero ELSE future
    IN  FxTenths(o[1], FxAdd(FxFromInt(o[3]), kept))

RECURSIVE ClaimedSum(_, _, _)
ClaimedSum(outcomes, values, g) ==
    IF outcomes = <<>> THEN FxZero
    ELSE FxAdd(ClaimedTerm(Head(outcomes), values, g),
               ClaimedSum(Tail(outcomes), values, g))

ClaimedQ(values, m, g, s) == [a \in Actions(m) |-> ClaimedSum(m[s][a], values, g)]

(* C7: the policy policy_improvement returns is defined on every state and *)
(* picks, in each state, the lowest-indexed action among those with the    *)
(* largest action value, the action value being the sum over the outcomes  *)
(* of prob * (reward + gamma * value[next] * (0 if terminal else 1)); the  *)
(* policy value_iteration builds from its last Q table does the same.      *)
C7_LowestIndexGreedy ==
    /\ (improved_policy # None /\ pi_pc # "improve") =>
          /\ DOMAIN improved_policy = States(mdp)
          /\ \A s \in States(mdp) :
                IsFirstMax(improved_policy[s],
                           ClaimedQ(pi_value_function, mdp, gamma, s))
    /\ VI_Returned =>
          /\ DOMAIN vi_policy = States(mdp)
          /\ \A s \in States(mdp) :
                /\ Q_vals[s] = ClaimedQ(vi_value_function, mdp, gamma, s)
                /\ IsFirstMax(vi_policy[s], Q_vals[s])

\* a tie between two actions, settled for the lower index, in both algorithms
C7_Witness ==
    /\ PI_Returned
    /\ VI_Returned
    /\ \E s \in States(mdp) :
          LET Q == ClaimedQ(pi_value_function, mdp, gamma, s)
          IN  1 \in DOMAIN Q /\ Q[0] = Q[1] /\ Q[0] # FxZero /\ improved_policy[s] = 0
    /\ \E s \in States(mdp) :
          1 \in DOMAIN Q_vals[s] /\ Q_vals[s][0] = Q_vals[s][1]
              /\ Q_vals[s][0] # FxZero /\ vi_policy[s] = 0

-----------------------------------------------------------------------------
(* C9 as stated: with gamma = 1 and a policy that never reaches a done     *)
(* outcome, no sweep of policy_evaluation passes the stopping test and     *)
(* policy_evaluation never returns.                                        *)
C9_NeverStops ==
    (gamma = 10 /\ policy_to_improve # None
          /\ NeverTerminal(mdp, policy_to_improve)) =>
        /\ pi_pc # "improve"
        /\ pi_pc = "pe" =>
              ~Converged(state_values,
                         EvaluationSweep(policy_to_improve, mdp, gamma, state_values),
                         theta)

\* every reward pi can collect is at least th
RewardsAtLeast(m, pi, th) ==
    \A s \in States(m) : \A o \in OutcomesOf(m, s, pi[s]) :
        o[1] > 0 => FxLeq(th, FxFromInt(o[3]))

(* C9 amended: with gamma = 1 and a policy that never reaches a done       *)
(* outcome and collects a reward of at least theta on every transition, no *)
(* sweep of policy_evaluation passes the stopping test and                 *)
(* policy_evaluation never returns.                                        *)
C9_NeverStopsWithRewards ==
    (gamma = 10 /\ policy_to_improve # None
          /\ NeverTerminal(mdp, policy_to_improve)
          /\ RewardsAtLeast(mdp, policy_to_improve, theta)) =>
        /\ pi_pc = "pe"
        /\ pi_pc = "pe" =>
              ~Converged(state_values,
                         EvaluationSweep(policy_to_improve, mdp, gamma, state_values),
                         theta)

C9_Witness ==
    /\ pi_pc = "pe"
    /\ gamma = 10
    /\ NeverTerminal(mdp, policy_to_improve)
    /\ RewardsAtLeast(mdp, policy_to_improve, theta)
    /\ sweeps >= 4

-----------------------------------------------------------------------------
\* the one-state, one-action scenario
single_state_mdp == [s \in {0} |-> [a \in {0} |-> << <<10, 0, 0, TRUE>> >>]]

(* C10: policy_evaluation starts from the all-zero value function; a sweep *)
(* returns its newly computed values exactly when every state's absolute   *)
(* difference between the previous and the new value is below theta (a     *)
(* difference equal to theta does not stop it), and otherwise the new      *)
(* values replace the previous ones; on the one-state, one-action MDP      *)
(* whose only outcome is a certain self-transition with reward 0 and       *)
(* done = TRUE it returns [0] after exactly one sweep.                     *)
C10_StopsAtFirstSweepBelowTheta ==
    /\ [][pi_pc = "pe" =>
            LET new == [s \in States(mdp) |->
                           Backup(mdp[s][policy_to_improve[s]], state_values, gamma)]
                below == \A s \in States(mdp) :
                            FxLess(FxAbs(FxSub(state_values[s], new[s])), theta)
            IN  /\ sweeps' = sweeps + 1
                /\ below => pi_pc' = "improve" /\ pi_value_function' = new
                /\ ~below => pi_pc' = "pe" /\ state_values' = new
                            /\ pi_value_function' = pi_value_function]_vars
    /\ []((pi_pc = "pe" /\ sweeps = 0) =>
              \A s \in States(mdp) : state_values[s] = FxZero)
    /\ []((pi_pc = "pe" /\ sweeps > 0 /\ mdp = single_state_mdp) => FALSE)
    /\ []((pi_pc = "improve" /\ mdp = single_state_mdp) =>
              sweeps = 1 /\ pi_value_function = [s \in {0} |-> FxZero])

\* a sweep whose largest difference is exactly theta, after which
\* policy_evaluation goes on
C10_Witness ==
    /\ pi_pc = "pe"
    /\ sweeps >= 2
    /\ MaxAbsDiff(state_values,
                  EvaluationSweep(policy_to_improve, mdp, gamma, state_values)) = theta

-----------------------------------------------------------------------------
\* the expected results of the Slippery Bandit Walk
sbw_policy == [s \in 0 .. 4 |-> IF s \in {1, 2, 3} THEN 1 ELSE 0]

sbw_rounded ==
    [s \in 0 .. 4 |->
        CASE s = 1 -> <<752900, 0>>
          [] s = 2 -> <<941200, 0>>
          [] s = 3 -> <<988200, 0>>
          [] OTHER -> FxZero]

sbw_numerator == [s \in 0 .. 4 |-> CASE s = 1 -> 64 [] s = 2 -> 80 [] s = 3 -> 84 [] OTHER -> 0]

\* |85 * v - n| < 85e-9, for v below 1.0
NearFraction(v, n) ==
    LET scaled == FxNorm(85 * v[1], 85 * v[2])
    IN  FxLess(FxAbs(FxSub(scaled, FxFromInt(n))), <<0, 85000>>)

IsSBWSolution(policy, values) ==
    /\ policy = sbw_policy
    /\ DOMAIN values = 0 .. 4
    /\ \A s \in 0 .. 4 :
          /\ FxLess(FxAbs(FxSub(values[s], sbw_rounded[s])), <<50, 0>>)
          /\ NearFraction(values[s], sbw_numerator[s])

(* C8: on the Slippery Bandit Walk with gamma = 1 and theta = 1e-10,       *)
(* policy_iteration from every initial policy and value_iteration return   *)
(* the policy {0:0, 1:1, 2:1, 3:1, 4:0} and a value function that rounds   *)
(* to [0, 0.7529, 0.9412, 0.9882, 0], within 1e-9 of                       *)
(* [0, 64/85, 16/17, 84/85, 0].                                            *)
C8_SlipperyBanditWalk ==
    /\ PI_Returned => IsSBWSolution(improved_policy, pi_value_function)
    /\ VI_Returned => IsSBWSolution(vi_policy, vi_value_function)

C8_Witness ==
    /\ mdp = slippery_bandit_walk
    /\ theta = DefaultTheta
    /\ PI_Returned
    /\ VI_Returned
    /\ Cardinality(visited) >= 2

-----------------------------------------------------------------------------
IsNearFixedPoint(policy, values, m, g, th) ==
    \A s \in States(m) :
        LET Q == ClaimedQ(values, m, g, s)
        IN  /\ IsFirstMax(policy[s], Q)
            /\ FxLess(FxAbs(FxSub(Q[policy[s]], values[s])), th)

====
